---- MODULE Spec2Model ----
(***************************************************************************)
(* request-cert: one invocation looks up a cached secret, otherwise        *)
(* generates a key, submits a CertificateSigningRequest, polls it until    *)
(* it is approved with a certificate or denied, stores the pair as a       *)
(* secret and writes the files.  The control plane (approver, signer,      *)
(* garbage collection) and the other invocations run concurrently; every   *)
(* API call of an invocation is one step.                                  *)
(***************************************************************************)
EXTENDS Integers, Sequences, FiniteSets, TLC

\* Bounds of the model.
NumProcs == 2      \* concurrent invocations of main()
MaxPolls == 3      \* ticker ticks one invocation is followed for
MaxConds == 2      \* conditions the control plane appends to one request
Deadline == 2      \* a finite deadline, in ticker ticks (1 s each)
MaxRequests == 2   \* UIDs after which other clients create no further request
MaxHosts == 2      \* comma-separated fields of --addresses

Procs == 1..NumProcs

\* main.go:87/98: every invocation of the model computes the same csrName,
\* which is also the secret's name.
CsrName == "ns.node.host"
\* A request of some other workload, present in the cluster throughout.
OtherName == "other"

\* Byte slices.  Nil is Go's nil slice; a private key generated by
\* invocation k is Key(k) (0: the key of a client that is not one of the
\* model's invocations); Cert(k) is a certificate issued for the public key
\* of Key(k).  A field the API server returns is nil or holds bytes: an
\* empty value is omitted on the wire and decodes as nil.
Nil == [kind |-> "nil", id |-> 0]
Key(k) == [kind |-> "key", id |-> k]
Cert(k) == [kind |-> "cert", id |-> k]

CondTypes == {"Approved", "Denied"}

VARIABLES
  csrs,           \* control plane: the CertificateSigningRequest objects
  nextUid,        \* control plane: the UID the next created object gets
  secrets,        \* secret store: the Secret objects of the namespace
  allowPrevious,  \* GetKubernetesCertificate's allowPrevious argument
  symlinkCASource,\* flag --symlink-ca-from: "" or a path
  pc,             \* pc[i]: where invocation i is in main()
  pemKey,         \* pemKey[i]: main's pemKey
  pemCert,        \* pemCert[i]: main's pemCert
  resp,           \* resp[i]: UID of the object submit proceeds with (0: none)
  createErr,      \* createErr[i]: the error Create returned ("none": none, or not called)
  getResp,        \* getResp[i]: the object the last poll fetched
  kcmRet,         \* kcmRet[i]: GetKubernetesCertificate's return: "none" (not yet), "ok", "error"
  cert,           \* cert[i]: what GetKubernetesCertificate returned (Nil: nothing)
  err,            \* err[i]: the error that ended invocation i ("none": none)
  creates,        \* creates[i]: CertificateSigningRequests().Create calls issued
  polls,          \* polls[i]: poll fetches issued by the Waiter loop
  puts,           \* puts[i]: Secrets().Create calls issued
  fs,             \* fs[i]: the certs directory of invocation i
  flags,          \* the flags --type, --addresses, --user, --namespace
  template,       \* template[i]: main's template, the x509.CertificateRequest
  wantServerAuth, \* wantServerAuth[i]: main's wantServerAuth
  req,            \* req[i]: req.Spec as GetKubernetesCertificate sent it to Create
  watchOpen,      \* watchOpen[i]: the watch's result channel is open
  nodeLabels,     \* locality-checker: the labels of the Kubernetes node
  checker,        \* locality-checker: the LocalityChecker's ErrorOnMissingLabels, Prefix
  lpc,            \* locality-checker: where its main() is
  localityInfo,   \* locality-checker: what getLocalityInfo returned
  written,        \* locality-checker: the files written to WritePath, in order
  lerr,           \* locality-checker: the error that ended it ("none": none)
  root            \* request-cert runs as root, whom no file mode stops

vars == <<csrs, nextUid, secrets, allowPrevious, symlinkCASource, pc, pemKey,
          pemCert, resp, createErr, getResp, kcmRet, cert, err, creates, polls,
          puts, fs, flags, template, wantServerAuth, req, watchOpen,
          nodeLabels, checker, lpc, localityInfo, written, lerr, root>>

\* The state of the locality-checker, a program of its own.
locVars == <<nodeLabels, checker, lpc, localityInfo, written, lerr>>

\* What the steps after main's flag checks, but for the Create and the
\* watch, leave alone.
cfgVars == <<flags, template, wantServerAuth, req, watchOpen, locVars, root>>

procVars == <<pc, pemKey, pemCert, resp, createErr, getResp, kcmRet, cert, err,
              creates, polls, puts, fs, cfgVars>>

Last(s) == s[Len(s)]

NoResp == [uid |-> 0, conds |-> <<>>, cert |-> Nil]

NoFiles(ca) == [dir |-> FALSE, key |-> Nil, crt |-> Nil, ca |-> ca]

\* The secret a complete earlier run left behind, and the corrupt shapes.
InitSecretShapes ==
  { {},
    {[name |-> CsrName, cert |-> Cert(0), key |-> Key(0)]},
    {[name |-> CsrName, cert |-> Cert(0), key |-> Nil]},
    {[name |-> CsrName, cert |-> Nil, key |-> Key(0)]},
    {[name |-> CsrName, cert |-> Nil, key |-> Nil]} }

OtherRequest ==
  [name |-> OtherName, uid |-> 1, request |-> 0, conds |-> <<"Denied">>, cert |-> Nil]

----------------------------------------------------------------------------
\* Flags and the CSR template.

\* The fields a --addresses value splits into at its commas.  A value
\* always has a first field; the empty value is one empty field.
HostTokens == {"", "10.0.0.1", "::ffff:10.0.0.2", "localhost"}

AddressLists ==
  UNION {[1..n -> HostTokens] : n \in 1..MaxHosts}

\* Values of --user.
UserNames == {"", "root", "maxroach"}

FlagSpace ==
  [type : {"node", "client", ""},
   addresses : AddressLists,
   user : UserNames,
   namespace : {"", "ns"}]

\* The flags of a node pod, as the invocations past the flag checks have
\* them.
NodeFlags ==
  [type |-> "node", addresses |-> <<"10.0.0.1", "localhost">>, user |-> "",
   namespace |-> "ns"]

\* net.ParseIP on the host tokens: the IP in its text form, "" for nil.
ParseIP(h) ==
  CASE h = "10.0.0.1" -> "10.0.0.1"
    [] h = "::ffff:10.0.0.2" -> "10.0.0.2"
    [] OTHER -> ""

\* main's template before the switch on --type.
NoTemplate ==
  [CommonName |-> "", Organization |-> "", IPAddresses |-> <<>>, DNSNames |-> <<>>]

\* serverCSR's loop without the test for an IP address: every host is a DNS
\* name, and an IP address besides when it parses.
RECURSIVE serverCSRLoopAllDNS(_, _)
serverCSRLoopAllDNS(hosts, csr) ==
  IF hosts = <<>> THEN csr
  ELSE LET h == Head(hosts)
           named == [csr EXCEPT !.DNSNames = @ \o <<h, "node">>] IN
       serverCSRLoopAllDNS(Tail(hosts),
         IF ParseIP(h) # ""
           THEN [named EXCEPT !.IPAddresses = Append(@, ParseIP(h))]
           ELSE named)

\* The loop of serverCSR over the hosts left, csr being built.
RECURSIVE serverCSRLoop(_, _)
serverCSRLoop(hosts, csr) ==
  IF hosts = <<>> THEN csr
  ELSE LET h == Head(hosts) IN
       serverCSRLoop(Tail(hosts),
         IF ParseIP(h) # ""
           THEN [csr EXCEPT !.IPAddresses = Append(@, ParseIP(h))]
           ELSE [csr EXCEPT !.DNSNames = @ \o <<h, "node">>])

serverCSR(hosts) ==
  serverCSRLoop(hosts,
    [CommonName |-> "system:node:Cockroach", Organization |-> "system:nodes",
     IPAddresses |-> <<>>, DNSNames |-> <<>>])

\* clientCSR with the subject of serverCSR.
clientCSRNodeSubject(user) ==
  [CommonName |-> "system:node:Cockroach", Organization |-> "system:nodes",
   IPAddresses |-> <<>>, DNSNames |-> <<>>]

clientCSR(user) ==
  [CommonName |-> user, Organization |-> "Cockroach",
   IPAddresses |-> <<>>, DNSNames |-> <<>>]

\* ValidateFlags without the check of --user.
ValidateFlagsNoUserCheck(f, hostnameOk) ==
  LET fatal == [ok |-> FALSE, template |-> NoTemplate, wantServerAuth |-> FALSE] IN
  IF f.namespace = "" THEN fatal
  ELSE IF ~hostnameOk THEN fatal
  ELSE IF f.type = "node"
    THEN IF f.addresses = <<"">> THEN fatal
         ELSE [ok |-> TRUE, template |-> serverCSR(f.addresses),
               wantServerAuth |-> TRUE]
  ELSE IF f.type = "client"
    THEN [ok |-> TRUE, template |-> clientCSR(f.user), wantServerAuth |-> FALSE]
  ELSE fatal

\* main's flag checks and the switch on --type: whether main goes on, and
\* with which template and wantServerAuth.
ValidateFlags(f, hostnameOk) ==
  LET fatal == [ok |-> FALSE, template |-> NoTemplate, wantServerAuth |-> FALSE] IN
  IF f.namespace = "" THEN fatal
  ELSE IF ~hostnameOk THEN fatal
  ELSE IF f.type = "node"
    THEN IF f.addresses = <<"">> THEN fatal
         ELSE [ok |-> TRUE, template |-> serverCSR(f.addresses),
               wantServerAuth |-> TRUE]
  ELSE IF f.type = "client"
    THEN IF f.user = "" THEN fatal
         ELSE [ok |-> TRUE, template |-> clientCSR(f.user),
               wantServerAuth |-> FALSE]
  ELSE fatal

\* req.Spec before GetKubernetesCertificate has built it.
NoReq == [Usages |-> <<>>, SignerName |-> ""]

\* ReqSpec that asks for the usages and the signer of a client whatever
\* wantServerAuth is.
ReqSpecAlwaysClient(serverAuth) ==
  [Usages |-> <<"digital signature", "key encipherment", "client auth">>,
   SignerName |-> "kubernetes.io/kube-apiserver-client"]

\* GetKubernetesCertificate: keyUsages and the signer name of req.Spec.
ReqSpec(serverAuth) ==
  [Usages |-> <<"digital signature", "key encipherment", "client auth">> \o
                (IF serverAuth THEN <<"server auth">> ELSE <<>>),
   SignerName |-> IF serverAuth THEN "kubernetes.io/legacy-unknown"
                                ELSE "kubernetes.io/kube-apiserver-client"]

\* The invocations are past main's flag checks, with the flags of a node.
Configured ==
  /\ flags = NodeFlags
  /\ template = [i \in Procs |-> serverCSR(NodeFlags.addresses)]
  /\ wantServerAuth = [i \in Procs |-> TRUE]

----------------------------------------------------------------------------
\* locality-checker: labels, values and files.  A string is the sequence of
\* its pieces, the empty string the empty sequence.

RegionKeys ==
  <<"topology.kubernetes.io/region", "failure-domain.beta.kubernetes.io/region">>
ZoneKeys ==
  <<"topology.kubernetes.io/zone", "failure-domain.beta.kubernetes.io/zone">>

LabelKeys ==
  {RegionKeys[k] : k \in DOMAIN RegionKeys} \cup {ZoneKeys[k] : k \in DOMAIN ZoneKeys}

\* The value a label has on a node of the model when it has one that is
\* not empty.
LabelValue(key) ==
  CASE key = "topology.kubernetes.io/region" -> <<"us-east1">>
    [] key = "failure-domain.beta.kubernetes.io/region" -> <<"us-east1-beta">>
    [] key = "topology.kubernetes.io/zone" -> <<"us-east1-b">>
    [] OTHER -> <<"us-east1-b-beta">>

\* The label maps of a node: each of the four labels is absent, empty or
\* set.
LabelMaps ==
  UNION {[K -> {<<>>, <<"set">>}] : K \in SUBSET LabelKeys}

NodeLabelMaps ==
  {[key \in DOMAIN h |-> IF h[key] = <<>> THEN <<>> ELSE LabelValue(key)] :
     h \in LabelMaps}

Prefixes == {<<>>, <<"gce-">>}

\* No localityInfo (a nil pointer).
NoInfo == [Region |-> <<>>, Zone |-> <<>>, nil |-> TRUE]

\* getFirstValue without the test of the value: a label that is there with
\* an empty value is taken.
RECURSIVE getFirstValueAcceptsEmpty(_, _)
getFirstValueAcceptsEmpty(haystack, needles) ==
  IF needles = <<>> THEN [value |-> <<>>, err |-> "value not found"]
  ELSE LET needle == Head(needles) IN
       IF needle \in DOMAIN haystack
         THEN [value |-> haystack[needle], err |-> "none"]
         ELSE getFirstValueAcceptsEmpty(haystack, Tail(needles))

\* getFirstValue: the value of the first needle the haystack holds with a
\* value that is not empty.
RECURSIVE getFirstValue(_, _)
getFirstValue(haystack, needles) ==
  IF needles = <<>> THEN [value |-> <<>>, err |-> "value not found"]
  ELSE LET needle == Head(needles) IN
       IF needle \in DOMAIN haystack /\ haystack[needle] # <<>>
         THEN [value |-> haystack[needle], err |-> "none"]
         ELSE getFirstValue(haystack, Tail(needles))

getRegion(labels) == getFirstValue(labels, RegionKeys)

getZone(labels) == getFirstValue(labels, ZoneKeys)

\* getLocalityInfo that never looks at ErrorOnMissingLabels: a missing label
\* is never an error.
getLocalityInfoNeverErrors(labels, l) ==
  LET region == getFirstValue(labels, RegionKeys)
      zone == getFirstValue(labels, ZoneKeys) IN
  IF region.err # "none" \/ zone.err # "none"
    THEN [info |-> NoInfo, err |-> "none"]
    ELSE [info |-> [Region |-> l.Prefix \o region.value,
                    Zone |-> l.Prefix \o zone.value, nil |-> FALSE],
          err |-> "none"]

\* getLocalityInfo on the labels the node Get returned, for checker l.
getLocalityInfo(labels, l) ==
  LET region == getRegion(labels)
      zone == getZone(labels) IN
  IF region.err # "none"
    THEN IF ~l.ErrorOnMissingLabels THEN [info |-> NoInfo, err |-> "none"]
         ELSE [info |-> NoInfo, err |-> "no region labels found"]
  ELSE IF zone.err # "none"
    THEN IF ~l.ErrorOnMissingLabels THEN [info |-> NoInfo, err |-> "none"]
         ELSE [info |-> NoInfo, err |-> "no zone labels found"]
  ELSE [info |-> [Region |-> l.Prefix \o region.value,
                  Zone |-> l.Prefix \o zone.value, nil |-> FALSE],
        err |-> "none"]

\* The content of the locality file: fmt.Sprintf("--locality=region=%s,az=%s").
LocalityFlag(info) ==
  <<"--locality=region=">> \o info.Region \o <<",az=">> \o info.Zone

\* The locality-checker does not run.
NoLocality ==
  /\ nodeLabels = <<>>
  /\ checker = [ErrorOnMissingLabels |-> FALSE, Prefix |-> <<>>]
  /\ lpc = "idle"
  /\ localityInfo = NoInfo
  /\ written = <<>>
  /\ lerr = "none"

----------------------------------------------------------------------------
\* The cluster, and the invocations in `active` at `start`; the others
\* never run.
InitInvocations(active, start) ==
  /\ csrs = {OtherRequest}
  /\ nextUid = 2
  /\ secrets \in InitSecretShapes
  /\ allowPrevious \in BOOLEAN
  /\ symlinkCASource \in {"", "/ca.crt"}
  /\ pc = [i \in Procs |-> IF i \in active THEN start ELSE "idle"]
  /\ pemKey = [i \in Procs |-> Nil]
  /\ pemCert = [i \in Procs |-> Nil]
  /\ resp = [i \in Procs |-> 0]
  /\ createErr = [i \in Procs |-> "none"]
  /\ getResp = [i \in Procs |-> NoResp]
  /\ kcmRet = [i \in Procs |-> "none"]
  /\ cert = [i \in Procs |-> Nil]
  /\ err = [i \in Procs |-> "none"]
  /\ creates = [i \in Procs |-> 0]
  /\ polls = [i \in Procs |-> 0]
  /\ puts = [i \in Procs |-> 0]
  /\ req = [i \in Procs |-> NoReq]
  /\ watchOpen = [i \in Procs |-> FALSE]

\* The invocations start on directories that hold no key and no
\* certificate; with no key file there, no step depends on the user.
InitCluster(active, start) ==
  /\ InitInvocations(active, start)
  /\ \E ca \in {"", "/old-ca.crt"} : fs = [i \in Procs |-> NoFiles(ca)]
  /\ root = FALSE

\* The state in which the invocations in `active` start at `start`, past
\* the flag checks.
InitWith(active, start) ==
  /\ InitCluster(active, start)
  /\ Configured
  /\ NoLocality

\* One invocation, in a cluster that may hold what earlier ones left behind.
Init == InitWith({1}, "getSecrets")

\* What writeFiles of an earlier invocation left in the directory, with
\* the pair that invocation stored: the key file has mode 0400.
LeftFiles(ca) == [dir |-> TRUE, key |-> Key(0), crt |-> Cert(0), ca |-> ca]

\* One invocation, as root or as another user, on a fresh directory or on
\* the directory an earlier invocation wrote, whose pair is in the secret
\* store.
InitPersist ==
  /\ InitInvocations({1}, "getSecrets")
  /\ Configured
  /\ NoLocality
  /\ root \in BOOLEAN
  /\ \/ \E ca \in {"", "/old-ca.crt"} : fs = [i \in Procs |-> NoFiles(ca)]
     \/ /\ secrets = {[name |-> CsrName, cert |-> Cert(0), key |-> Key(0)]}
        /\ \E ca \in {"", "/old-ca.crt", "/ca.crt"} :
             fs = [i \in Procs |-> LeftFiles(ca)]

\* All invocations start together.
InitConcurrent == InitWith(Procs, "getSecrets")

\* All invocations start together under one name, with nothing cached and
\* reuse of an existing request enabled.
InitRace ==
  /\ InitWith(Procs, "getSecrets")
  /\ secrets = {}
  /\ allowPrevious
  /\ symlinkCASource = ""
  /\ \A i \in Procs : fs[i].ca = ""

\* One invocation from the top of main, with any flags, in a cluster with
\* nothing cached.
InitConfig ==
  /\ InitCluster({1}, "validate")
  /\ secrets = {}
  /\ allowPrevious
  /\ symlinkCASource = ""
  /\ fs[1].ca = ""
  /\ flags \in FlagSpace
  /\ template = [i \in Procs |-> NoTemplate]
  /\ wantServerAuth = [i \in Procs |-> FALSE]
  /\ NoLocality

\* One run of the locality-checker, on a node with any labels; no
\* request-cert invocation runs.
InitLocality ==
  /\ InitCluster({}, "idle")
  /\ Configured
  /\ secrets = {}
  /\ ~allowPrevious
  /\ symlinkCASource = ""
  /\ \A i \in Procs : fs[i].ca = ""
  /\ nodeLabels \in NodeLabelMaps
  /\ checker \in [ErrorOnMissingLabels : BOOLEAN, Prefix : Prefixes]
  /\ lpc = "main"
  /\ localityInfo = NoInfo
  /\ written = <<>>
  /\ lerr = "none"

\* One call of kubernetesSigner, the first version of the request function.
InitSigner ==
  /\ InitWith({1}, "signerCreate")
  /\ secrets = {}
  /\ ~allowPrevious
  /\ symlinkCASource = ""
  /\ fs[1].ca = ""

----------------------------------------------------------------------------
\* Control plane.

ByName(name) == {r \in csrs : r.name = name}

\* An approver (kubectl certificate approve/deny) appends a condition.
AppendCondition ==
  \E r \in ByName(CsrName), c \in CondTypes :
    /\ Len(r.conds) < MaxConds
    /\ csrs' = (csrs \ {r}) \cup {[r EXCEPT !.conds = Append(@, c)]}
    /\ UNCHANGED <<nextUid, secrets, allowPrevious, symlinkCASource, procVars>>

\* The signer materializes the certificate of an approved request, for the
\* public key of the CSR the request holds.
IssueCertificate ==
  \E r \in ByName(CsrName) :
    /\ r.cert = Nil
    /\ \E k \in 1..Len(r.conds) : r.conds[k] = "Approved"
    /\ csrs' = (csrs \ {r}) \cup {[r EXCEPT !.cert = Cert(r.request)]}
    /\ UNCHANGED <<nextUid, secrets, allowPrevious, symlinkCASource, procVars>>

\* A client that is not one of the model's invocations (an earlier run that
\* has terminated since, a run elsewhere) creates the request under the
\* same name, with a CSR for its own key Key(0).
OtherCreate ==
  /\ ByName(CsrName) = {}
  /\ nextUid - 2 < MaxRequests
  /\ csrs' = csrs \cup {[name |-> CsrName, uid |-> nextUid, request |-> 0,
                          conds |-> <<>>, cert |-> Nil]}
  /\ nextUid' = nextUid + 1
  /\ UNCHANGED <<secrets, allowPrevious, symlinkCASource, procVars>>

\* The request is deleted (garbage collection, an operator).
DeleteRequest ==
  \E r \in ByName(CsrName) :
    /\ csrs' = csrs \ {r}
    /\ UNCHANGED <<nextUid, secrets, allowPrevious, symlinkCASource, procVars>>

----------------------------------------------------------------------------
\* Invocation i ends with a fatal error.
Fatal(i, e) ==
  /\ pc' = [pc EXCEPT ![i] = "failed"]
  /\ err' = [err EXCEPT ![i] = e]


----------------------------------------------------------------------------
\* GetSecrets as the earlier getSecrets had it: missing fields come back nil
\* without an error.
GetSecretsMissingIsNil(secretName, storeFails) ==
  LET found == {s \in secrets : s.name = secretName} IN
  IF storeFails THEN [cert |-> Nil, key |-> Nil, err |-> "transport"]
  ELSE IF found = {} THEN [cert |-> Nil, key |-> Nil, err |-> "none"]
  ELSE LET s == CHOOSE s \in found : TRUE IN
       [cert |-> s.cert, key |-> s.key, err |-> "none"]

\* GetSecrets that never finds the secret.
GetSecretsNeverFound(secretName, storeFails) ==
  IF storeFails THEN [cert |-> Nil, key |-> Nil, err |-> "transport"]
  ELSE [cert |-> Nil, key |-> Nil, err |-> "none"]

\* GetSecrets that does not tell not-found from the other errors of the Get.
GetSecretsNotFoundIsError(secretName, storeFails) ==
  LET found == {s \in secrets : s.name = secretName} IN
  IF storeFails \/ found = {}
    THEN [cert |-> Nil, key |-> Nil, err |-> "transport"]
  ELSE LET s == CHOOSE s \in found : TRUE IN
       IF s.cert = Nil
         THEN [cert |-> Nil, key |-> Nil, err |-> "missing certificate"]
       ELSE IF s.key = Nil
         THEN [cert |-> Nil, key |-> Nil, err |-> "missing private key"]
       ELSE [cert |-> s.cert, key |-> s.key, err |-> "none"]

\* KubernetesCertificateManager.GetSecrets: not-found is (nil, nil, nil), a
\* store failure is an error, a secret missing "cert" or "key" is an error.
GetSecrets(secretName, storeFails) ==
  LET found == {s \in secrets : s.name = secretName} IN
  IF storeFails THEN [cert |-> Nil, key |-> Nil, err |-> "transport"]
  ELSE IF found = {} THEN [cert |-> Nil, key |-> Nil, err |-> "none"]
  ELSE LET s == CHOOSE s \in found : TRUE IN
       IF s.cert = Nil
         THEN [cert |-> Nil, key |-> Nil, err |-> "missing certificate"]
       ELSE IF s.key = Nil
         THEN [cert |-> Nil, key |-> Nil, err |-> "missing private key"]
       ELSE [cert |-> s.cert, key |-> s.key, err |-> "none"]

\* main up to the lookup: the flag checks, os.Hostname and the template.
Validate(i) ==
  /\ pc[i] = "validate"
  /\ \E hostnameOk \in BOOLEAN :
       LET v == ValidateFlags(flags, hostnameOk) IN
       IF v.ok
         THEN /\ template' = [template EXCEPT ![i] = v.template]
              /\ wantServerAuth' = [wantServerAuth EXCEPT ![i] = v.wantServerAuth]
              /\ pc' = [pc EXCEPT ![i] = "getSecrets"]
              /\ UNCHANGED err
         ELSE /\ Fatal(i, "flags")
              /\ UNCHANGED <<template, wantServerAuth>>
  /\ UNCHANGED <<csrs, nextUid, secrets, allowPrevious, symlinkCASource, pemKey,
                 pemCert, resp, createErr, getResp, kcmRet, cert, creates, polls,
                 puts, fs, flags, req, watchOpen, locVars, root>>

\* main: look the secret up; a complete pair goes straight to writeFiles.
MainGetSecrets(i) ==
  /\ pc[i] = "getSecrets"
  /\ \E storeFails \in BOOLEAN :
       LET r == GetSecrets(CsrName, storeFails) IN
       IF r.err # "none"
         THEN /\ Fatal(i, "secrets")
              /\ UNCHANGED <<pemCert, pemKey>>
       ELSE IF r.cert = Nil \/ r.key = Nil
         THEN /\ pc' = [pc EXCEPT ![i] = "create"]
              /\ UNCHANGED <<pemCert, pemKey, err>>
       ELSE /\ pc' = [pc EXCEPT ![i] = "write"]
            /\ pemCert' = [pemCert EXCEPT ![i] = r.cert]
            /\ pemKey' = [pemKey EXCEPT ![i] = r.key]
            /\ UNCHANGED err
  /\ UNCHANGED <<csrs, nextUid, secrets, allowPrevious, symlinkCASource,
                 resp, createErr, getResp, kcmRet, cert, creates, polls, puts, fs>>
  /\ UNCHANGED cfgVars

\* A Create that lets a second request of the same name in.
CreateErrorNoUniqueness(name, apiFails) ==
  IF apiFails THEN "other" ELSE "none"

\* CertificateSigningRequests().Create as the control plane answers it:
\* names are unique, and any call may fail for another reason.
CreateError(name, apiFails) ==
  IF apiFails THEN "other"
  ELSE IF ByName(name) # {} THEN "exists"
  ELSE "none"

\* SubmitAfterCreate without the reuse of a previous request.
SubmitAfterCreateNoReuse(e, allowPrev) ==
  IF e = "none" THEN "proceed" ELSE "fail"

\* SubmitAfterCreate that fetches the previous request on any Create error,
\* whatever allowPrevious is.
SubmitAfterCreateAlwaysReuse(e, allowPrev) ==
  IF e = "none" THEN "proceed" ELSE "reuse"

\* GetKubernetesCertificate after Create returned: go on with the created
\* object, fetch the previous one, or give up.
SubmitAfterCreate(e, allowPrev) ==
  IF e = "none" THEN "proceed"
  ELSE IF e = "exists" /\ allowPrev THEN "reuse"
  ELSE "fail"

\* requestCertificate up to the Create call of GetKubernetesCertificate:
\* a fresh key, a CSR for it, and the create request.
RequestCreate(i) ==
  /\ pc[i] = "create"
  /\ \E keygenFails \in BOOLEAN, apiFails \in BOOLEAN :
       IF keygenFails
         THEN /\ Fatal(i, "keygen")
              /\ UNCHANGED <<csrs, nextUid, pemKey, resp, creates, createErr, kcmRet, req>>
         ELSE LET e == CreateError(CsrName, apiFails)
                  next == SubmitAfterCreate(e, allowPrevious) IN
              /\ pemKey' = [pemKey EXCEPT ![i] = Key(i)]
              /\ creates' = [creates EXCEPT ![i] = @ + 1]
              /\ req' = [req EXCEPT ![i] = ReqSpec(wantServerAuth[i])]
              /\ createErr' = [createErr EXCEPT ![i] = e]
              /\ IF e = "none"
                   THEN /\ csrs' = csrs \cup
                              {[name |-> CsrName, uid |-> nextUid, request |-> i,
                                conds |-> <<>>, cert |-> Nil]}
                        /\ nextUid' = nextUid + 1
                   ELSE UNCHANGED <<csrs, nextUid>>
              /\ CASE next = "proceed" ->
                        /\ resp' = [resp EXCEPT ![i] = nextUid]
                        /\ pc' = [pc EXCEPT ![i] = "await"]
                        /\ UNCHANGED <<err, kcmRet>>
                   [] next = "reuse" ->
                        /\ pc' = [pc EXCEPT ![i] = "reuseGet"]
                        /\ UNCHANGED <<resp, err, kcmRet>>
                   [] OTHER ->
                        /\ Fatal(i, "create")
                        /\ kcmRet' = [kcmRet EXCEPT ![i] = "error"]
                        /\ UNCHANGED resp
  /\ UNCHANGED <<secrets, allowPrevious, symlinkCASource, pemCert, getResp,
                 cert, polls, puts, fs>>
  /\ UNCHANGED <<flags, template, wantServerAuth, watchOpen, locVars, root>>

\* A reuse step that deletes the existing request and creates its own in
\* its place.
ReuseGetRecreate(i) ==
  /\ pc[i] = "reuseGet"
  /\ \E apiFails \in BOOLEAN :
       IF apiFails
         THEN /\ Fatal(i, "reuseGet")
              /\ kcmRet' = [kcmRet EXCEPT ![i] = "error"]
              /\ UNCHANGED <<resp, csrs, nextUid, creates>>
         ELSE /\ csrs' = (csrs \ ByName(CsrName)) \cup
                    {[name |-> CsrName, uid |-> nextUid, request |-> i,
                      conds |-> <<>>, cert |-> Nil]}
              /\ nextUid' = nextUid + 1
              /\ creates' = [creates EXCEPT ![i] = @ + 1]
              /\ resp' = [resp EXCEPT ![i] = nextUid]
              /\ pc' = [pc EXCEPT ![i] = "await"]
              /\ UNCHANGED <<err, kcmRet>>
  /\ UNCHANGED <<secrets, allowPrevious, symlinkCASource, pemKey, pemCert,
                 createErr, getResp, cert, polls, puts, fs>>
  /\ UNCHANGED cfgVars

\* GetKubernetesCertificate, allowPrevious: the Get of the existing request.
ReuseGet(i) ==
  /\ pc[i] = "reuseGet"
  /\ \E apiFails \in BOOLEAN :
       IF apiFails \/ ByName(CsrName) = {}
         THEN /\ Fatal(i, "reuseGet")
              /\ kcmRet' = [kcmRet EXCEPT ![i] = "error"]
              /\ UNCHANGED resp
         ELSE LET r == CHOOSE r \in ByName(CsrName) : TRUE IN
              /\ resp' = [resp EXCEPT ![i] = r.uid]
              /\ pc' = [pc EXCEPT ![i] = "await"]
              /\ UNCHANGED <<err, kcmRet>>
  /\ UNCHANGED <<csrs, nextUid, secrets, allowPrevious, symlinkCASource, pemKey,
                 pemCert, createErr, getResp, cert, creates, polls, puts, fs>>
  /\ UNCHANGED cfgVars

\* AwaitDecision with the certificate looked at before the condition.
AwaitDecisionCertFirst(r) ==
  IF Len(r.conds) = 0 THEN "continue"
  ELSE IF r.cert # Nil THEN "done"
  ELSE IF Last(r.conds) # "Approved" THEN "denied"
  ELSE "continue"

\* AwaitDecision without the wait for the certificate to materialize.
AwaitDecisionNoCertWait(r) ==
  IF Len(r.conds) = 0 THEN "continue"
  ELSE IF Last(r.conds) # "Approved" THEN "denied"
  ELSE "done"

\* AwaitDecision that reads "no condition" as "not approved".
AwaitDecisionEmptyDenied(r) ==
  IF Len(r.conds) = 0 \/ Last(r.conds) # "Approved" THEN "denied"
  ELSE IF r.cert = Nil THEN "continue"
  ELSE "done"

\* AwaitDecision that waits for the certificate before it reads the
\* condition.
AwaitDecisionWaitsForCert(r) ==
  IF Len(r.conds) = 0 THEN "continue"
  ELSE IF r.cert = Nil THEN "continue"
  ELSE IF Last(r.conds) # "Approved" THEN "denied"
  ELSE "done"

\* AwaitDecision that keeps waiting on a denied request.
AwaitDecisionDeniedWaits(r) ==
  IF Len(r.conds) = 0 THEN "continue"
  ELSE IF Last(r.conds) # "Approved" THEN "continue"
  ELSE IF r.cert = Nil THEN "continue"
  ELSE "done"

\* The Waiter loop's verdict on one fetched object.
AwaitDecision(r) ==
  IF Len(r.conds) = 0 THEN "continue"
  ELSE IF Last(r.conds) # "Approved" THEN "denied"
  ELSE IF r.cert = Nil THEN "continue"
  ELSE "done"

\* A Waiter loop that gives up on an object whose UID is not the created
\* one's.
AwaitVerdictMismatchFails(r, uid) ==
  IF r.uid # uid THEN "denied" ELSE AwaitDecision(r)

\* One iteration of the Waiter loop on the fetched object r, uid being the UID
\* of the object Create or the reuse Get returned: a different UID is logged
\* and the conditions are examined all the same.
AwaitVerdict(r, uid) ==
  LET logged == r.uid # uid IN AwaitDecision(r)

\* A check that both PEM blocks parse, without the comparison of the keys.
X509KeyPairParsesOnly(c, k) == c.kind = "cert" /\ k.kind = "key"

\* tls.X509KeyPair: the certificate's public key is the private key's.
X509KeyPair(c, k) == c.kind = "cert" /\ k.kind = "key" /\ c.id = k.id

\* A Waiter loop that waits for the next tick when the Get fails.
PollRetriesFetch(i) ==
  /\ pc[i] = "await"
  /\ polls[i] < MaxPolls
  /\ polls' = [polls EXCEPT ![i] = @ + 1]
  /\ \E apiFails \in BOOLEAN :
       IF apiFails \/ ByName(CsrName) = {}
         THEN UNCHANGED <<pc, err, kcmRet, getResp, cert, pemCert>>
         ELSE LET r == CHOOSE r \in ByName(CsrName) : TRUE
                  d == AwaitVerdict(r, resp[i]) IN
              /\ getResp' = [getResp EXCEPT ![i] =
                               [uid |-> r.uid, conds |-> r.conds, cert |-> r.cert]]
              /\ CASE d = "continue" -> UNCHANGED <<pc, err, kcmRet, cert, pemCert>>
                   [] d = "denied" ->
                        /\ Fatal(i, "denied")
                        /\ kcmRet' = [kcmRet EXCEPT ![i] = "error"]
                        /\ UNCHANGED <<cert, pemCert>>
                   [] OTHER ->
                        /\ kcmRet' = [kcmRet EXCEPT ![i] = "ok"]
                        /\ cert' = [cert EXCEPT ![i] = r.cert]
                        /\ IF X509KeyPair(r.cert, pemKey[i])
                             THEN /\ pemCert' = [pemCert EXCEPT ![i] = r.cert]
                                  /\ pc' = [pc EXCEPT ![i] = "store"]
                                  /\ UNCHANGED err
                             ELSE /\ Fatal(i, "keypair")
                                  /\ UNCHANGED pemCert
  /\ UNCHANGED <<csrs, nextUid, secrets, allowPrevious, symlinkCASource, pemKey,
                 resp, createErr, creates, puts, fs>>
  /\ UNCHANGED cfgVars

\* The Get of one tick of the Waiter loop and what the loop makes of it; on
\* a certificate, the rest of requestCertificate and main up to
\* StoreSecrets (a certificate that passes X509KeyPair is not empty, so
\* main's len(pemCert) == 0 exit is not taken).  A UID other than resp's is
\* logged and changes nothing.
Fetch(i, apiFails) ==
  IF apiFails \/ ByName(CsrName) = {}
    THEN /\ Fatal(i, "fetch")
         /\ kcmRet' = [kcmRet EXCEPT ![i] = "error"]
         /\ UNCHANGED <<getResp, cert, pemCert>>
    ELSE LET r == CHOOSE r \in ByName(CsrName) : TRUE
             d == AwaitVerdict(r, resp[i]) IN
         /\ getResp' = [getResp EXCEPT ![i] =
                          [uid |-> r.uid, conds |-> r.conds, cert |-> r.cert]]
         /\ CASE d = "continue" -> UNCHANGED <<pc, err, kcmRet, cert, pemCert>>
              [] d = "denied" ->
                   /\ Fatal(i, "denied")
                   /\ kcmRet' = [kcmRet EXCEPT ![i] = "error"]
                   /\ UNCHANGED <<cert, pemCert>>
              [] OTHER ->
                   /\ kcmRet' = [kcmRet EXCEPT ![i] = "ok"]
                   /\ cert' = [cert EXCEPT ![i] = r.cert]
                   /\ IF X509KeyPair(r.cert, pemKey[i])
                        THEN /\ pemCert' = [pemCert EXCEPT ![i] = r.cert]
                             /\ pc' = [pc EXCEPT ![i] = "store"]
                             /\ UNCHANGED err
                        ELSE /\ Fatal(i, "keypair")
                             /\ UNCHANGED pemCert

\* One tick of the Waiter loop, of the MaxPolls the invocation is followed
\* for.
Poll(i) ==
  /\ pc[i] = "await"
  /\ polls[i] < MaxPolls
  /\ polls' = [polls EXCEPT ![i] = @ + 1]
  /\ \E apiFails \in BOOLEAN : Fetch(i, apiFails)
  /\ UNCHANGED <<csrs, nextUid, secrets, allowPrevious, symlinkCASource, pemKey,
                 resp, createErr, creates, puts, fs>>
  /\ UNCHANGED cfgVars

\* One tick of a Waiter loop whose Get never fails, followed for as long as
\* it runs: the ticks past MaxPolls are not counted.
TickPoll(i) ==
  /\ pc[i] = "await"
  /\ polls' = [polls EXCEPT ![i] = IF @ < MaxPolls THEN @ + 1 ELSE @]
  /\ Fetch(i, FALSE)
  /\ UNCHANGED <<csrs, nextUid, secrets, allowPrevious, symlinkCASource, pemKey,
                 resp, createErr, creates, puts, fs>>
  /\ UNCHANGED cfgVars

\* StoreSecrets followed by writeFiles whatever Secrets().Create returned.
StoreSecretsIgnoreError(i) ==
  /\ pc[i] = "store"
  /\ puts' = [puts EXCEPT ![i] = @ + 1]
  /\ \E apiFails \in BOOLEAN :
       IF apiFails \/ \E s \in secrets : s.name = CsrName
         THEN UNCHANGED secrets
         ELSE secrets' = secrets \cup
                {[name |-> CsrName, cert |-> pemCert[i], key |-> pemKey[i]]}
  /\ pc' = [pc EXCEPT ![i] = "write"]
  /\ UNCHANGED <<csrs, nextUid, allowPrevious, symlinkCASource, pemKey, pemCert,
                 resp, createErr, getResp, kcmRet, cert, creates, polls, fs, err>>
  /\ UNCHANGED cfgVars

\* StoreSecrets with the certificate and the key in each other's place.
StoreSecretsSwapped(i) ==
  /\ pc[i] = "store"
  /\ puts' = [puts EXCEPT ![i] = @ + 1]
  /\ \E apiFails \in BOOLEAN :
       IF apiFails \/ \E s \in secrets : s.name = CsrName
         THEN /\ Fatal(i, "store")
              /\ UNCHANGED secrets
         ELSE /\ secrets' = secrets \cup
                    {[name |-> CsrName, cert |-> pemKey[i], key |-> pemCert[i]]}
              /\ pc' = [pc EXCEPT ![i] = "write"]
              /\ UNCHANGED err
  /\ UNCHANGED <<csrs, nextUid, allowPrevious, symlinkCASource, pemKey, pemCert,
                 resp, createErr, getResp, kcmRet, cert, creates, polls, fs>>
  /\ UNCHANGED cfgVars

\* StoreSecrets that replaces the secret when the name is taken (create or
\* update).
StoreSecretsOverwrite(i) ==
  /\ pc[i] = "store"
  /\ puts' = [puts EXCEPT ![i] = @ + 1]
  /\ \E apiFails \in BOOLEAN :
       IF apiFails
         THEN /\ Fatal(i, "store")
              /\ UNCHANGED secrets
         ELSE /\ secrets' = {s \in secrets : s.name # CsrName} \cup
                    {[name |-> CsrName, cert |-> pemCert[i], key |-> pemKey[i]]}
              /\ pc' = [pc EXCEPT ![i] = "write"]
              /\ UNCHANGED err
  /\ UNCHANGED <<csrs, nextUid, allowPrevious, symlinkCASource, pemKey, pemCert,
                 resp, createErr, getResp, kcmRet, cert, creates, polls, fs>>
  /\ UNCHANGED cfgVars

\* KubernetesCertificateManager.StoreSecrets: Secrets().Create, never an update.
StoreSecrets(i) ==
  /\ pc[i] = "store"
  /\ puts' = [puts EXCEPT ![i] = @ + 1]
  /\ \E apiFails \in BOOLEAN :
       IF apiFails \/ \E s \in secrets : s.name = CsrName
         THEN /\ Fatal(i, "store")
              /\ UNCHANGED secrets
         ELSE /\ secrets' = secrets \cup
                    {[name |-> CsrName, cert |-> pemCert[i], key |-> pemKey[i]]}
              /\ pc' = [pc EXCEPT ![i] = "write"]
              /\ UNCHANGED err
  /\ UNCHANGED <<csrs, nextUid, allowPrevious, symlinkCASource, pemKey, pemCert,
                 resp, createErr, getResp, kcmRet, cert, creates, polls, fs>>
  /\ UNCHANGED cfgVars

\* writeFiles that only logs a failed Symlink.
writeFilesSymlinkLogged(f, c, k, caSource, faults) ==
  IF "mkdir" \in faults THEN [fs |-> f, ok |-> FALSE]
  ELSE LET f1 == [f EXCEPT !.dir = TRUE] IN
  IF "key" \in faults \/ (f1.key # Nil /\ ~root)
    THEN [fs |-> f1, ok |-> FALSE]
  ELSE LET f2 == [f1 EXCEPT !.key = k] IN
  IF "crt" \in faults THEN [fs |-> f2, ok |-> FALSE]
  ELSE LET f3 == [f2 EXCEPT !.crt = c] IN
  IF caSource = "" THEN [fs |-> f3, ok |-> TRUE]
  ELSE LET f4 == IF "remove" \in faults THEN f3 ELSE [f3 EXCEPT !.ca = ""] IN
  IF "symlink" \in faults \/ f4.ca # "" THEN [fs |-> f4, ok |-> TRUE]
  ELSE [fs |-> [f4 EXCEPT !.ca = caSource], ok |-> TRUE]

\* writeFiles with the key written to the .crt file and the certificate to
\* the .key file.
writeFilesSwapped(f, c, k, caSource, faults) ==
  IF "mkdir" \in faults THEN [fs |-> f, ok |-> FALSE]
  ELSE LET f1 == [f EXCEPT !.dir = TRUE] IN
  IF "key" \in faults \/ (f1.key # Nil /\ ~root)
    THEN [fs |-> f1, ok |-> FALSE]
  ELSE LET f2 == [f1 EXCEPT !.key = c] IN
  IF "crt" \in faults THEN [fs |-> f2, ok |-> FALSE]
  ELSE LET f3 == [f2 EXCEPT !.crt = k] IN
  IF caSource = "" THEN [fs |-> f3, ok |-> TRUE]
  ELSE LET f4 == IF "remove" \in faults THEN f3 ELSE [f3 EXCEPT !.ca = ""] IN
  IF "symlink" \in faults \/ f4.ca # "" THEN [fs |-> f4, ok |-> FALSE]
  ELSE [fs |-> [f4 EXCEPT !.ca = caSource], ok |-> TRUE]

\* writeFiles on directory f with the I/O calls in `faults` failing.  A key
\* file that is there was made with mode 0400, and ioutil.WriteFile opens
\* it for writing: that fails for every user but root.
writeFiles(f, c, k, caSource, faults) ==
  IF "mkdir" \in faults THEN [fs |-> f, ok |-> FALSE]
  ELSE LET f1 == [f EXCEPT !.dir = TRUE] IN
  IF "key" \in faults \/ (f1.key # Nil /\ ~root)
    THEN [fs |-> f1, ok |-> FALSE]
  ELSE LET f2 == [f1 EXCEPT !.key = k] IN
  IF "crt" \in faults THEN [fs |-> f2, ok |-> FALSE]
  ELSE LET f3 == [f2 EXCEPT !.crt = c] IN
  IF caSource = "" THEN [fs |-> f3, ok |-> TRUE]
  ELSE LET f4 == IF "remove" \in faults THEN f3 ELSE [f3 EXCEPT !.ca = ""] IN
  IF "symlink" \in faults \/ f4.ca # "" THEN [fs |-> f4, ok |-> FALSE]
  ELSE [fs |-> [f4 EXCEPT !.ca = caSource], ok |-> TRUE]

IOCalls == {"mkdir", "key", "crt", "remove", "symlink"}

\* main: write the files and exit.
MainWriteFiles(i) ==
  /\ pc[i] = "write"
  /\ \E faults \in SUBSET IOCalls :
       LET w == writeFiles(fs[i], pemCert[i], pemKey[i], symlinkCASource, faults) IN
       /\ fs' = [fs EXCEPT ![i] = w.fs]
       /\ IF w.ok
            THEN /\ pc' = [pc EXCEPT ![i] = "done"]
                 /\ UNCHANGED err
            ELSE Fatal(i, "files")
  /\ UNCHANGED <<csrs, nextUid, secrets, allowPrevious, symlinkCASource, pemKey,
                 pemCert, resp, createErr, getResp, kcmRet, cert, creates, polls,
                 puts>>
  /\ UNCHANGED cfgVars

----------------------------------------------------------------------------
\* kubernetesSigner, the first version of the request function: no reuse of
\* an existing request, and a loop that ends with the first fetch that
\* shows any condition.

\* kubernetesSigner's verdict on one fetched object.
SignerDecision(r) ==
  IF Len(r.conds) = 0 THEN "continue"
  ELSE IF r.conds[1] # "Approved" THEN "denied"
  ELSE "done"

\* kubernetesSigner up to its Create call.
SignerCreate(i) ==
  /\ pc[i] = "signerCreate"
  /\ creates' = [creates EXCEPT ![i] = @ + 1]
  /\ \E apiFails \in BOOLEAN :
       LET e == CreateError(CsrName, apiFails) IN
       /\ createErr' = [createErr EXCEPT ![i] = e]
       /\ IF e = "none"
            THEN /\ csrs' = csrs \cup
                       {[name |-> CsrName, uid |-> nextUid, request |-> i,
                         conds |-> <<>>, cert |-> Nil]}
                 /\ nextUid' = nextUid + 1
                 /\ resp' = [resp EXCEPT ![i] = nextUid]
                 /\ pc' = [pc EXCEPT ![i] = "signerPoll"]
                 /\ UNCHANGED <<err, kcmRet>>
            ELSE /\ Fatal(i, "create")
                 /\ kcmRet' = [kcmRet EXCEPT ![i] = "error"]
                 /\ UNCHANGED <<csrs, nextUid, resp>>
  /\ UNCHANGED <<secrets, allowPrevious, symlinkCASource, pemKey, pemCert,
                 getResp, cert, polls, puts, fs>>
  /\ UNCHANGED cfgVars

\* One round of kubernetesSigner's loop, and what follows the loop when the
\* fetched object has a condition.
SignerPoll(i) ==
  /\ pc[i] = "signerPoll"
  /\ polls[i] < MaxPolls
  /\ polls' = [polls EXCEPT ![i] = @ + 1]
  /\ \E apiFails \in BOOLEAN :
       IF apiFails \/ ByName(CsrName) = {}
         THEN /\ Fatal(i, "fetch")
              /\ kcmRet' = [kcmRet EXCEPT ![i] = "error"]
              /\ UNCHANGED <<getResp, cert>>
         ELSE LET r == CHOOSE r \in ByName(CsrName) : TRUE
                  d == SignerDecision(r) IN
              /\ getResp' = [getResp EXCEPT ![i] =
                               [uid |-> r.uid, conds |-> r.conds, cert |-> r.cert]]
              /\ CASE d = "continue" -> UNCHANGED <<pc, err, kcmRet, cert>>
                   [] d = "denied" ->
                        /\ Fatal(i, "denied")
                        /\ kcmRet' = [kcmRet EXCEPT ![i] = "error"]
                        /\ UNCHANGED cert
                   [] OTHER ->
                        /\ kcmRet' = [kcmRet EXCEPT ![i] = "ok"]
                        /\ cert' = [cert EXCEPT ![i] = r.cert]
                        /\ pc' = [pc EXCEPT ![i] = "signerDone"]
                        /\ UNCHANGED err
  /\ UNCHANGED <<csrs, nextUid, secrets, allowPrevious, symlinkCASource, pemKey,
                 pemCert, resp, createErr, creates, puts, fs>>
  /\ UNCHANGED cfgVars

----------------------------------------------------------------------------
\* getKubernetesCertificate, the version that watches the request instead
\* of polling it: no reuse of an existing request, and a for/select loop on
\* the watch's result channel and a 30 s timer.  polls[i] counts the rounds
\* of the loop.

\* The loop's verdict on the object of one event.
WatchDecision(r, uid) ==
  IF r.uid # uid THEN "continue"
  ELSE IF Len(r.conds) = 0 THEN "continue"
  ELSE IF Last(r.conds) # "Approved" THEN "denied"
  ELSE IF r.cert = Nil THEN "continue"
  ELSE "done"

\* getKubernetesCertificate up to its Create call.
WatchCreate(i) ==
  /\ pc[i] = "watchCreate"
  /\ creates' = [creates EXCEPT ![i] = @ + 1]
  /\ \E apiFails \in BOOLEAN :
       LET e == CreateError(CsrName, apiFails) IN
       /\ createErr' = [createErr EXCEPT ![i] = e]
       /\ IF e = "none"
            THEN /\ csrs' = csrs \cup
                       {[name |-> CsrName, uid |-> nextUid, request |-> i,
                         conds |-> <<>>, cert |-> Nil]}
                 /\ nextUid' = nextUid + 1
                 /\ resp' = [resp EXCEPT ![i] = nextUid]
                 /\ pc' = [pc EXCEPT ![i] = "watchStart"]
                 /\ UNCHANGED <<err, kcmRet>>
            ELSE /\ Fatal(i, "create")
                 /\ kcmRet' = [kcmRet EXCEPT ![i] = "error"]
                 /\ UNCHANGED <<csrs, nextUid, resp>>
  /\ UNCHANGED <<secrets, allowPrevious, symlinkCASource, pemKey, pemCert,
                 getResp, cert, polls, puts, fs>>
  /\ UNCHANGED cfgVars

\* The Watch call.
WatchStart(i) ==
  /\ pc[i] = "watchStart"
  /\ \E apiFails \in BOOLEAN :
       IF apiFails
         THEN /\ Fatal(i, "watch")
              /\ kcmRet' = [kcmRet EXCEPT ![i] = "error"]
              /\ UNCHANGED watchOpen
         ELSE /\ watchOpen' = [watchOpen EXCEPT ![i] = TRUE]
              /\ pc' = [pc EXCEPT ![i] = "watching"]
              /\ UNCHANGED <<err, kcmRet>>
  /\ UNCHANGED <<csrs, nextUid, secrets, allowPrevious, symlinkCASource, pemKey,
                 pemCert, resp, createErr, getResp, cert, creates, polls, puts,
                 fs, flags, template, wantServerAuth, req, locVars, root>>

\* A round of the loop that receives an event: the request of the name as
\* it is now.
WatchEvent(i) ==
  /\ pc[i] = "watching"
  /\ watchOpen[i]
  /\ polls[i] < MaxPolls
  /\ polls' = [polls EXCEPT ![i] = @ + 1]
  /\ \E r \in ByName(CsrName) :
       LET d == WatchDecision(r, resp[i]) IN
       /\ getResp' = [getResp EXCEPT ![i] =
                        [uid |-> r.uid, conds |-> r.conds, cert |-> r.cert]]
       /\ CASE d = "continue" -> UNCHANGED <<pc, err, kcmRet, cert>>
            [] d = "denied" ->
                 /\ Fatal(i, "denied")
                 /\ kcmRet' = [kcmRet EXCEPT ![i] = "error"]
                 /\ UNCHANGED cert
            [] OTHER ->
                 /\ kcmRet' = [kcmRet EXCEPT ![i] = "ok"]
                 /\ cert' = [cert EXCEPT ![i] = r.cert]
                 /\ pc' = [pc EXCEPT ![i] = "watchDone"]
                 /\ UNCHANGED err
  /\ UNCHANGED <<csrs, nextUid, secrets, allowPrevious, symlinkCASource, pemKey,
                 pemCert, resp, createErr, creates, puts, fs>>
  /\ UNCHANGED cfgVars

\* A round of the loop in which the 30 s timer fires: a message, and the
\* next round.
WatchTimer(i) ==
  /\ pc[i] = "watching"
  /\ watchOpen[i]
  /\ polls[i] < MaxPolls
  /\ polls' = [polls EXCEPT ![i] = @ + 1]
  /\ UNCHANGED <<csrs, nextUid, secrets, allowPrevious, symlinkCASource, pc,
                 pemKey, pemCert, resp, createErr, getResp, kcmRet, cert, err,
                 creates, puts, fs>>
  /\ UNCHANGED cfgVars

\* The API server ends the watch (at the latest after watchTimeout): the
\* result channel is closed.
CloseWatch ==
  \E i \in Procs :
    /\ watchOpen[i]
    /\ watchOpen' = [watchOpen EXCEPT ![i] = FALSE]
    /\ UNCHANGED <<csrs, nextUid, secrets, allowPrevious, symlinkCASource, pc,
                   pemKey, pemCert, resp, createErr, getResp, kcmRet, cert, err,
                   creates, polls, puts, fs, flags, template, wantServerAuth,
                   req, locVars, root>>

\* A round of the loop on the closed channel: the receive yields ok = false
\* at once and the break leaves the select, not the for: the next round
\* follows.
WatchClosed(i) ==
  /\ pc[i] = "watching"
  /\ ~watchOpen[i]
  /\ polls[i] < MaxPolls
  /\ polls' = [polls EXCEPT ![i] = @ + 1]
  /\ UNCHANGED <<csrs, nextUid, secrets, allowPrevious, symlinkCASource, pc,
                 pemKey, pemCert, resp, createErr, getResp, kcmRet, cert, err,
                 creates, puts, fs>>
  /\ UNCHANGED cfgVars

----------------------------------------------------------------------------
\* locality-checker.

certVars == <<csrs, nextUid, secrets, allowPrevious, symlinkCASource, pc, pemKey,
              pemCert, resp, createErr, getResp, kcmRet, cert, err, creates,
              polls, puts, fs, flags, template, wantServerAuth, req, watchOpen,
              root>>

LocalityFatal(e) ==
  /\ lpc' = "failed"
  /\ lerr' = e

\* main up to the call of WriteLocality.
LocalityMain ==
  /\ lpc = "main"
  /\ \E nodeNameSet \in BOOLEAN, clientsetOk \in BOOLEAN :
       IF ~nodeNameSet THEN LocalityFatal("KUBERNETES_NODE must be set")
       ELSE IF ~clientsetOk THEN LocalityFatal("error building clientset")
       ELSE /\ lpc' = "getLocalityInfo"
            /\ UNCHANGED lerr
  /\ UNCHANGED <<nodeLabels, checker, localityInfo, written, certVars>>

\* WriteLocality: the Get of the node and getLocalityInfo on its labels.
GetLocalityInfo ==
  /\ lpc = "getLocalityInfo"
  /\ \E apiFails \in BOOLEAN :
       IF apiFails
         THEN /\ LocalityFatal("getting node labels failed")
              /\ UNCHANGED localityInfo
         ELSE LET r == getLocalityInfo(nodeLabels, checker) IN
              IF r.err # "none"
                THEN /\ LocalityFatal(r.err)
                     /\ UNCHANGED localityInfo
              ELSE IF r.info.nil
                THEN /\ lpc' = "done"
                     /\ UNCHANGED <<lerr, localityInfo>>
              ELSE /\ localityInfo' = r.info
                   /\ lpc' = "writeRegion"
                   /\ UNCHANGED lerr
  /\ UNCHANGED <<nodeLabels, checker, written, certVars>>

\* One writeFile call of writeLocalityInfo, made at `at` and followed by
\* `next`.
writeFile(at, localityType, localityValue, next) ==
  /\ lpc = at
  /\ \E ioFails \in BOOLEAN :
       IF ioFails
         THEN /\ LocalityFatal("write")
              /\ UNCHANGED written
         ELSE /\ written' = Append(written, [name |-> localityType,
                                              value |-> localityValue])
              /\ lpc' = next
              /\ UNCHANGED lerr
  /\ UNCHANGED <<nodeLabels, checker, localityInfo, certVars>>

WriteRegion ==
  writeFile("writeRegion", "region", localityInfo.Region, "writeZone")

WriteZone ==
  writeFile("writeZone", "zone", localityInfo.Zone, "writeLocality")

WriteLocalityFile ==
  writeFile("writeLocality", "locality", LocalityFlag(localityInfo), "done")

NextLocality ==
  \/ LocalityMain
  \/ GetLocalityInfo
  \/ WriteRegion
  \/ WriteZone
  \/ WriteLocalityFile

----------------------------------------------------------------------------
Next ==
  \/ AppendCondition
  \/ IssueCertificate
  \/ OtherCreate
  \/ DeleteRequest
  \/ \E i \in Procs : MainGetSecrets(i)
  \/ \E i \in Procs : RequestCreate(i)
  \/ \E i \in Procs : ReuseGet(i)
  \/ \E i \in Procs : Poll(i)
  \/ \E i \in Procs : StoreSecrets(i)
  \/ \E i \in Procs : MainWriteFiles(i)

Spec == Init /\ [][Next]_vars

SpecConcurrent == InitConcurrent /\ [][Next]_vars

SpecRace == InitRace /\ [][Next]_vars

SpecPersist == InitPersist /\ [][Next]_vars

\* The control plane records the first condition of the request.
RecordDecision ==
  /\ \E r \in ByName(CsrName) : r.conds = <<>>
  /\ AppendCondition

\* One invocation whose Gets in the Waiter loop all succeed, no request
\* being deleted; the control plane does not leave a request without a
\* condition, nor an approved one without its certificate, for ever, and
\* the ticker keeps ticking.
NextLive ==
  \/ AppendCondition
  \/ IssueCertificate
  \/ OtherCreate
  \/ \E i \in Procs : MainGetSecrets(i)
  \/ \E i \in Procs : RequestCreate(i)
  \/ \E i \in Procs : ReuseGet(i)
  \/ \E i \in Procs : TickPoll(i)
  \/ \E i \in Procs : StoreSecrets(i)
  \/ \E i \in Procs : MainWriteFiles(i)

SpecLive ==
  /\ Init
  /\ [][NextLive]_vars
  /\ WF_vars(RecordDecision)
  /\ WF_vars(IssueCertificate)
  /\ \A i \in Procs : WF_vars(TickPoll(i))

\* The invocation from the top of main, with an approver, a signer and
\* other clients at work; no request is deleted.
NextConfig ==
  \/ AppendCondition
  \/ IssueCertificate
  \/ OtherCreate
  \/ \E i \in Procs : Validate(i)
  \/ \E i \in Procs : MainGetSecrets(i)
  \/ \E i \in Procs : RequestCreate(i)
  \/ \E i \in Procs : ReuseGet(i)
  \/ \E i \in Procs : Poll(i)
  \/ \E i \in Procs : StoreSecrets(i)
  \/ \E i \in Procs : MainWriteFiles(i)

SpecConfig == InitConfig /\ [][NextConfig]_vars

NextSigner ==
  \/ AppendCondition
  \/ IssueCertificate
  \/ OtherCreate
  \/ DeleteRequest
  \/ \E i \in Procs : SignerCreate(i)
  \/ \E i \in Procs : SignerPoll(i)

SpecSigner == InitSigner /\ [][NextSigner]_vars

SpecLocality == InitLocality /\ [][NextLocality]_vars

\* One call of the watching getKubernetesCertificate.
InitWatch ==
  /\ InitWith({1}, "watchCreate")
  /\ secrets = {}
  /\ ~allowPrevious
  /\ symlinkCASource = ""
  /\ fs[1].ca = ""

NextWatch ==
  \/ AppendCondition
  \/ IssueCertificate
  \/ OtherCreate
  \/ DeleteRequest
  \/ CloseWatch
  \/ \E i \in Procs : WatchCreate(i)
  \/ \E i \in Procs : WatchStart(i)
  \/ \E i \in Procs : WatchEvent(i)
  \/ \E i \in Procs : WatchTimer(i)
  \/ \E i \in Procs : WatchClosed(i)

SpecWatch == InitWatch /\ [][NextWatch]_vars

----------------------------------------------------------------------------
\* Properties of GetKubernetesCertificate's Waiter loop.

\* The latest condition of a fetched object.
Denied(r) == Len(r.conds) > 0 /\ Last(r.conds) # "Approved"
Approved(r) == Len(r.conds) > 0 /\ Last(r.conds) = "Approved"

\* C1: once a poll has fetched a request whose most recent condition is not
\* Approved, GetKubernetesCertificate has returned the denial error on that
\* poll, with or without a certificate in the request, and it has returned
\* no certificate; from then on the invocation issues no further fetch.
C1_DenialEndsAwait ==
  [][\A i \in Procs :
       /\ Denied(getResp[i])' =>
            /\ pc'[i] = "failed"
            /\ err'[i] = "denied"
            /\ kcmRet'[i] = "error"
            /\ cert'[i] = Nil
       /\ Denied(getResp[i]) => polls'[i] = polls[i]]_vars

\* A denial was fetched from a request that holds a certificate.
C1_Witness ==
  \E i \in Procs :
    /\ Denied(getResp[i])
    /\ getResp[i].cert # Nil
    /\ err[i] = "denied"

\* C2: a request fetched Approved without a certificate never makes
\* GetKubernetesCertificate return: the loop is still polling, unless a
\* later fetch failed; and when it has returned success, the object of its
\* last fetch is Approved, holds a certificate, and that certificate is the
\* value returned.
C2_SuccessOnlyWithCertificate ==
  \A i \in Procs :
    /\ (Approved(getResp[i]) /\ getResp[i].cert = Nil) =>
         /\ kcmRet[i] # "ok"
         /\ \/ pc[i] = "await" /\ kcmRet[i] = "none"
            \/ pc[i] = "failed" /\ err[i] = "fetch"
    /\ kcmRet[i] = "ok" =>
         /\ Approved(getResp[i])
         /\ getResp[i].cert # Nil
         /\ cert[i] = getResp[i].cert

\* A poll left the loop waiting on an approved request without certificate.
C2_Witness ==
  \E i \in Procs :
    /\ Approved(getResp[i])
    /\ getResp[i].cert = Nil
    /\ pc[i] = "await"
    /\ polls[i] >= 1

\* C4: while no fetch has failed and the fetched request has no condition,
\* GetKubernetesCertificate has not returned, neither a certificate nor an
\* error, and the loop goes on to its next tick.
C4_NoConditionStaysPending ==
  \A i \in Procs :
    (polls[i] > 0 /\ err[i] # "fetch" /\ Len(getResp[i].conds) = 0) =>
      /\ pc[i] = "await"
      /\ kcmRet[i] = "none"
      /\ cert[i] = Nil
      /\ err[i] = "none"
      /\ polls[i] < MaxPolls => ENABLED Poll(i)

\* Two polls in a row fetched a request without conditions.
C4_Witness ==
  \E i \in Procs :
    /\ polls[i] >= 2
    /\ err[i] = "none"
    /\ Len(getResp[i].conds) = 0
    /\ pc[i] = "await"

\* C3: only the most recently appended condition decides the outcome: when
\* no fetch has failed and the fetched object has conditions, the request
\* function has ended with the denial error exactly if the most recent
\* condition is not Approved (so Denied, Approved gives no denial error and
\* Approved, Denied gives one).  It holds of GetKubernetesCertificate's
\* Waiter loop (Spec) and fails for kubernetesSigner (SpecSigner), which
\* reads Conditions[0].
C3_LastConditionDecides ==
  \A i \in Procs :
    (err[i] # "fetch" /\ Len(getResp[i].conds) > 0) =>
      (err[i] = "denied" <=> Last(getResp[i].conds) # "Approved")

\* The Waiter loop fetched a request with two different conditions.
TwoConditionsFetched ==
  \E i \in Procs :
    /\ Len(getResp[i].conds) = 2
    /\ getResp[i].conds[1] # getResp[i].conds[2]

\* C5: the wait is bounded by a deadline: once more than Deadline ticks
\* have passed, GetKubernetesCertificate is no longer waiting.  The Waiter
\* loop has no deadline and no cancellation.
C5_AwaitBoundedByDeadline ==
  \A i \in Procs : polls[i] > Deadline => pc[i] # "await"

----------------------------------------------------------------------------
\* Properties of submission.

\* Invocation i has written nothing into its certs directory.
NothingWritten(i) ==
  /\ ~fs[i].dir
  /\ fs[i].key = Nil
  /\ fs[i].crt = Nil
  /\ fs[i].ca \in {"", "/old-ca.crt"}

\* C6: with allowPrevious, a Create that fails because the name exists is no
\* error of the submission: the existing request is fetched by name; the
\* fetch creates nothing and leaves the invocation with the UID of the
\* request of that name; and no second request of the name ever exists.
C6_ReuseAdoptsExisting ==
  [][\A i \in Procs :
       /\ (createErr'[i] = "exists" /\ allowPrevious') =>
            /\ err'[i] # "create"
            /\ pc'[i] = "reuseGet" \/ err'[i] = "reuseGet" \/ resp'[i] # 0
       /\ (pc[i] = "reuseGet" /\ pc'[i] = "await") =>
            /\ csrs' = csrs
            /\ nextUid' = nextUid
            /\ creates'[i] = creates[i]
            /\ err'[i] = "none"
            /\ kcmRet'[i] = "none"
            /\ \E r \in ByName(CsrName) : r.uid = resp'[i]
       /\ Cardinality(ByName(CsrName))' <= 1]_vars

\* An invocation adopted the request another client had created and polled it.
C6_Witness ==
  \E i \in Procs :
    /\ createErr[i] = "exists"
    /\ allowPrevious
    /\ resp[i] # 0
    /\ polls[i] > 0
    /\ getResp[i].uid = resp[i]

\* C7: an invocation that adopted the request of an earlier invocation and
\* fetched it Approved with its certificate goes on to store the secret and
\* write the files: it ends, if at all, only in an I/O failure of those.
C7_ReuseCompletes ==
  \A i \in Procs :
    (createErr[i] = "exists" /\ kcmRet[i] = "ok") =>
      \/ pc[i] \in {"store", "write", "done"}
      \/ pc[i] = "failed" /\ err[i] \in {"store", "files"}

\* C8: a Create failure that reuse does not absorb is fatal before any
\* polling: Create failed with already-exists without allowPrevious, or for
\* another reason, or the Get of the previous request failed; then the
\* submission has returned an error, and the invocation has issued no poll
\* fetch, stored no secret and written no file.
C8_CreateFailureIsFatal ==
  \A i \in Procs :
    (\/ createErr[i] = "other"
     \/ createErr[i] = "exists" /\ ~allowPrevious
     \/ err[i] = "reuseGet") =>
      /\ pc[i] = "failed"
      /\ kcmRet[i] = "error"
      /\ err[i] \in {"create", "reuseGet"}
      /\ polls[i] = 0
      /\ puts[i] = 0
      /\ NothingWritten(i)
      /\ \A s \in secrets : s.key # Key(i)

\* Create failed with already-exists while reuse was off.
C8_Witness ==
  \E i \in Procs :
    /\ createErr[i] = "exists"
    /\ ~allowPrevious
    /\ pc[i] = "failed"

----------------------------------------------------------------------------
\* Properties of the secret cache.

CompleteSecrets == {s \in secrets : s.name = CsrName /\ s.cert # Nil /\ s.key # Nil}

\* Invocation i took the pair from the secret: it holds a key and made none.
FromCache(i) ==
  /\ pc[i] \in {"write", "done", "failed"}
  /\ pemKey[i] # Nil
  /\ creates[i] = 0

\* C9: when the lookup finds a complete pair (and the store does not fail),
\* the invocation goes straight to writeFiles with that pair; from there on
\* it generates no key, creates no request, issues no poll fetch and no
\* Secrets().Create, and the files it writes hold the cached key and
\* certificate.
C9_CacheHitShortCircuits ==
  [][\A i \in Procs :
       /\ (pc[i] = "getSecrets" /\ pc'[i] # "getSecrets"
             /\ err'[i] = "none" /\ CompleteSecrets # {}) =>
            /\ pc'[i] = "write"
            /\ \E s \in CompleteSecrets : pemCert'[i] = s.cert /\ pemKey'[i] = s.key
            /\ FromCache(i)'
       /\ FromCache(i) =>
            /\ FromCache(i)'
            /\ pemKey'[i] = pemKey[i] /\ pemCert'[i] = pemCert[i]
            /\ polls'[i] = 0 /\ puts'[i] = 0 /\ kcmRet'[i] = "none"
            /\ (\A r \in csrs' : r.request # i)
            /\ secrets' = secrets
            /\ pc'[i] = "done" =>
                 fs'[i].key = pemKey[i] /\ fs'[i].crt = pemCert[i]]_vars

\* An invocation wrote the files from the cached pair.
C9_Witness ==
  \E i \in Procs :
    /\ FromCache(i)
    /\ pc[i] = "done"
    /\ fs[i].key = Key(0)
    /\ fs[i].crt = Cert(0)

\* The secret of the name holds exactly one of "cert" and "key".
CorruptSecrets ==
  {s \in secrets : s.name = CsrName /\ ((s.cert = Nil) # (s.key = Nil))}

\* C10: a secret with exactly one of "cert" and "key" is an error of the
\* lookup, not an absent secret: an invocation that has looked it up has
\* failed there, and has created no request, stored no secret and written
\* no file.
C10_CorruptSecretIsFatal ==
  \A i \in Procs :
    (CorruptSecrets # {} /\ pc[i] \notin {"idle", "getSecrets"}) =>
      /\ pc[i] = "failed"
      /\ err[i] = "secrets"
      /\ creates[i] = 0
      /\ puts[i] = 0
      /\ pemKey[i] = Nil
      /\ NothingWritten(i)
      /\ \A r \in csrs : r.request # i

\* An invocation looked up a secret that holds only the certificate.
C10_Witness ==
  \E i \in Procs :
    /\ \E s \in CorruptSecrets : s.key = Nil
    /\ pc[i] = "failed"
    /\ err[i] = "secrets"

----------------------------------------------------------------------------
NamedSecrets == {s \in secrets : s.name = CsrName}

\* The steps of requestCertificate and what it can fail with.
IssuancePcs == {"create", "reuseGet", "await", "store"}
IssuanceErrs == {"keygen", "create", "reuseGet", "fetch", "denied", "keypair", "store"}

\* C11: while no secret of the name exists, GetSecrets returns (nil, nil)
\* with no error, and with a failing store it returns an error; an
\* invocation that has looked the secret up is then either on the issuance
\* path (in requestCertificate, or failed in it), or it has failed at the
\* lookup with no request created, no secret stored and no file written.
C11_NotFoundStartsIssuance ==
  NamedSecrets = {} =>
    /\ GetSecrets(CsrName, FALSE) = [cert |-> Nil, key |-> Nil, err |-> "none"]
    /\ GetSecrets(CsrName, TRUE).err # "none"
    /\ \A i \in Procs :
         pc[i] \notin {"idle", "getSecrets"} =>
           \/ pc[i] \in IssuancePcs /\ err[i] = "none"
           \/ pc[i] = "failed" /\ err[i] \in IssuanceErrs
           \/ /\ pc[i] = "failed" /\ err[i] = "secrets"
              /\ creates[i] = 0 /\ puts[i] = 0 /\ polls[i] = 0
              /\ pemKey[i] = Nil /\ NothingWritten(i)

\* An invocation found no secret and is waiting for its own request.
C11_Witness ==
  \E i \in Procs :
    /\ NamedSecrets = {}
    /\ pc[i] = "await"
    /\ createErr[i] = "none"
    /\ polls[i] > 0

\* C12: a StoreSecrets on a name that has a secret fails with the store
\* error and changes no secret; no step removes or changes a secret, so a
\* secret once stored is there, with the same cert and key, ever after, and
\* it stays the only one of its name.
C12_PutNeverOverwrites ==
  [][/\ \A s \in secrets : s \in secrets'
     /\ \A s \in secrets' : s.name = CsrName /\ NamedSecrets # {} => s \in secrets
     /\ \A i \in Procs :
          puts'[i] # puts[i] /\ NamedSecrets # {} =>
            /\ secrets' = secrets
            /\ pc'[i] = "failed"
            /\ err'[i] = "store"]_vars

\* A StoreSecrets has failed on the secret another invocation had stored.
C12_Witness ==
  \E i \in Procs :
    /\ err[i] = "store"
    /\ pemCert[i] # Nil
    /\ NamedSecrets # {}
    /\ \A s \in NamedSecrets : s.key # pemKey[i]

\* C13: an invocation whose fetch showed the request denied has failed with
\* the denial error, has never called StoreSecrets (so no secret holds its
\* key) and has written no key, certificate or ca.crt; and the denial error
\* comes from nothing but a denied request.
C13_DenialWritesNothing ==
  \A i \in Procs :
    /\ Denied(getResp[i]) =>
         /\ pc[i] = "failed"
         /\ err[i] = "denied"
    /\ err[i] = "denied" =>
         /\ Denied(getResp[i])
         /\ pc[i] = "failed"
         /\ puts[i] = 0
         /\ pemCert[i] = Nil
         /\ \A s \in secrets : s.key # pemKey[i]
         /\ NothingWritten(i)

\* The request the invocation created itself has been denied, and the
\* invocation has seen it.
C13_Witness ==
  \E i \in Procs :
    /\ err[i] = "denied"
    /\ createErr[i] = "none"
    /\ getResp[i].uid = resp[i]
    /\ fs[i].ca = "/old-ca.crt"
    /\ symlinkCASource # ""

\* Invocation i created the request itself and has fetched it approved and
\* with its certificate.
FreshIssued(i) ==
  /\ createErr[i] = "none"
  /\ creates[i] = 1
  /\ getResp[i].uid = resp[i]
  /\ Approved(getResp[i])
  /\ getResp[i].cert # Nil

\* C14: an invocation makes at most one request and calls StoreSecrets at
\* most once.  Once it has fetched the request it created itself approved
\* and with a certificate, after any number of polls that showed it pending,
\* GetKubernetesCertificate has returned that certificate, the certificate
\* is the one for the generated key, and nothing but a failure of the store
\* or of the file system keeps the invocation from success: past the store
\* it has called StoreSecrets once and the secret holds the issued
\* certificate and the generated key, at the end the files hold them too.
C14_FreshRunSucceeds ==
  \A i \in Procs :
    /\ creates[i] <= 1
    /\ puts[i] <= 1
    /\ Cardinality({r \in csrs : r.request = i}) <= 1
    /\ FreshIssued(i) =>
         /\ kcmRet[i] = "ok"
         /\ cert[i] = Cert(i)
         /\ pemCert[i] = Cert(i)
         /\ pemKey[i] = Key(i)
         /\ \/ pc[i] \in {"store", "write", "done"}
            \/ pc[i] = "failed" /\ err[i] \in {"store", "files"}
         /\ pc[i] \in {"write", "done"} =>
              /\ puts[i] = 1
              /\ [name |-> CsrName, cert |-> Cert(i), key |-> Key(i)] \in secrets
         /\ pc[i] = "done" =>
              /\ fs[i].dir
              /\ fs[i].key = Key(i)
              /\ fs[i].crt = Cert(i)

\* A fresh run has succeeded on its last poll, the earlier ones having
\* shown the request pending.
C14_Witness ==
  \E i \in Procs :
    /\ FreshIssued(i)
    /\ pc[i] = "done"
    /\ polls[i] = MaxPolls
    /\ puts[i] = 1

\* The place of a step in main; both ends of the run come last.
Rank(p) ==
  CASE p = "idle" -> 0
    [] p = "getSecrets" -> 1
    [] p = "create" -> 2
    [] p = "reuseGet" -> 3
    [] p = "await" -> 4
    [] p = "store" -> 5
    [] p = "write" -> 6
    [] OTHER -> 7

\* C15: no step of an invocation leads back to an earlier one.  The Create
\* is made after the lookup and before any fetch, a fetch only after the
\* Create, StoreSecrets only after GetKubernetesCertificate returned a
\* certificate and before any file is written, and a file is written only
\* in writeFiles, with the pair that is in the secret: the one the lookup
\* found or the one StoreSecrets stored.
C15_PipelineIsLinear ==
  [][\A i \in Procs :
       /\ Rank(pc'[i]) >= Rank(pc[i])
       /\ creates'[i] # creates[i] =>
            /\ pc[i] = "create"
            /\ polls[i] = 0 /\ puts[i] = 0 /\ NothingWritten(i)
       /\ polls'[i] # polls[i] =>
            /\ pc[i] = "await"
            /\ creates[i] = 1 /\ puts[i] = 0 /\ NothingWritten(i)
       /\ puts'[i] # puts[i] =>
            /\ pc[i] = "store"
            /\ kcmRet[i] = "ok" /\ cert[i] # Nil /\ polls[i] > 0
            /\ NothingWritten(i)
       /\ fs'[i] # fs[i] =>
            /\ pc[i] = "write"
            /\ pemCert[i] # Nil /\ pemKey[i] # Nil
            /\ [name |-> CsrName, cert |-> pemCert[i], key |-> pemKey[i]] \in secrets
            /\ \/ creates[i] = 0 /\ puts[i] = 0
               \/ creates[i] = 1 /\ puts[i] = 1]_vars

\* An invocation has gone through every step and failed in the last.
C15_Witness ==
  \E i \in Procs :
    /\ pc[i] = "failed"
    /\ err[i] = "files"
    /\ fs[i].key # Nil
    /\ creates[i] = 1
    /\ polls[i] > 1
    /\ puts[i] = 1

\* C16: an invocation that ended well has made the directory and written
\* the key file and the certificate file, and ca.crt links to the CA source
\* when one is given; what it wrote is the cert and key of the secret of
\* its name.  An invocation that failed anywhere but in writeFiles has
\* written nothing.
C16_ProcessContract ==
  \A i \in Procs :
    /\ pc[i] = "done" =>
         /\ fs[i].dir
         /\ fs[i].key # Nil
         /\ fs[i].crt # Nil
         /\ symlinkCASource # "" => fs[i].ca = symlinkCASource
         /\ \E s \in NamedSecrets : s.cert = fs[i].crt /\ s.key = fs[i].key
    /\ pc[i] = "failed" /\ err[i] # "files" => NothingWritten(i)

\* An invocation ended well with the CA link in place.
C16_Witness ==
  \E i \in Procs :
    /\ pc[i] = "done"
    /\ symlinkCASource # ""
    /\ fs[i].ca = symlinkCASource
    /\ fs[i].crt = pemCert[i]

\* The object invocation i fetched last is not the one Create or the reuse
\* Get gave it.
UidMismatch(i) == getResp[i].uid \notin {0, resp[i]}

\* C17: on a fetched object of another UID the Waiter loop does what the
\* object's conditions and certificate say and nothing else: an error of
\* GetKubernetesCertificate is then the denial of a denied object or a later
\* failed fetch, an object that is pending stays waited for, and an
\* approved one with a certificate ends the wait with that certificate.
C17_UidMismatchIsNoFailure ==
  \A i \in Procs :
    UidMismatch(i) =>
      /\ kcmRet[i] = "error" =>
           \/ err[i] = "denied" /\ Denied(getResp[i])
           \/ err[i] = "fetch"
      /\ AwaitDecision(getResp[i]) = "continue" /\ err[i] # "fetch" =>
           /\ pc[i] = "await"
           /\ kcmRet[i] = "none"
      /\ AwaitDecision(getResp[i]) = "done" =>
           /\ kcmRet[i] = "ok"
           /\ cert[i] = getResp[i].cert

\* The wait goes on after a fetch that showed another UID.
C17_Witness ==
  \E i \in Procs :
    /\ UidMismatch(i)
    /\ pc[i] = "await"
    /\ polls[i] > 0
    /\ err[i] = "none"

\* C18: a fetch of the Waiter loop that fails ends GetKubernetesCertificate
\* with an error on the spot (seen here on a fetch made while the request
\* is gone, which cannot but fail); an invocation that failed on a fetch
\* has got no certificate, stored no secret and written no file, and it
\* fetches no more.
C18_FetchFailureIsFinal ==
  [][\A i \in Procs :
       /\ polls'[i] # polls[i] /\ ByName(CsrName) = {} =>
            /\ pc'[i] = "failed"
            /\ err'[i] = "fetch"
            /\ getResp'[i] = getResp[i]
       /\ err'[i] = "fetch" =>
            /\ pc'[i] = "failed"
            /\ kcmRet'[i] = "error"
            /\ cert'[i] = Nil /\ pemCert'[i] = Nil
            /\ puts'[i] = 0
            /\ \A s \in secrets' : s.key # pemKey'[i]
            /\ NothingWritten(i)'
       /\ err[i] = "fetch" => polls'[i] = polls[i] /\ pc'[i] = "failed"]_vars

\* A fetch failed after an earlier one had shown the request waiting for
\* its certificate.
C18_Witness ==
  \E i \in Procs :
    /\ err[i] = "fetch"
    /\ polls[i] > 1
    /\ Approved(getResp[i])

\* Invocation i's StoreSecrets went through.
PutSucceeded(i) ==
  /\ puts[i] > 0
  /\ err[i] # "store"

\* C19: invocations started together under one name, nothing cached and
\* reuse enabled.  The name never has more than one request; an invocation
\* whose Create found the name taken has made no request and has not
\* failed at the Create: it is at, or past, the Get of the existing
\* request; the name never has more than one secret, at most one
\* invocation's StoreSecrets goes through, and the secret is that one's.
C19_CreateUniquenessOnly ==
  /\ Cardinality(ByName(CsrName)) <= 1
  /\ Cardinality(NamedSecrets) <= 1
  /\ \A i \in Procs :
       /\ createErr[i] = "exists" =>
            /\ \A r \in csrs : r.request # i
            /\ err[i] # "create"
            /\ \/ pc[i] \in {"reuseGet", "await", "store", "write", "done"}
               \/ pc[i] = "failed" /\ err[i] # "none"
            /\ pc[i] # "reuseGet" /\ err[i] # "reuseGet" => resp[i] # 0
       /\ PutSucceeded(i) =>
            /\ NamedSecrets = {[name |-> CsrName, cert |-> pemCert[i], key |-> pemKey[i]]}
            /\ \A j \in Procs \ {i} : ~PutSucceeded(j)

\* One invocation's Create lost to the other's and it waits on the other's
\* request.
C19_Witness ==
  \E i, j \in Procs :
    /\ createErr[i] = "exists"
    /\ createErr[j] = "none"
    /\ resp[i] = resp[j]
    /\ pc[i] = "await"
    /\ polls[i] > 0

\* Invocation i takes the step.
StepOf(i) == pc'[i] # pc[i] \/ polls'[i] # polls[i]

\* C20: an invocation calls Create at most once, and a step of an
\* invocation leaves every request as it is, conditions and certificate
\* included, except that the Create step adds the invocation's own request,
\* without condition or certificate, when the name is free.
C20_ReadOnlyObserver ==
  [][\A i \in Procs :
       /\ creates'[i] <= 1
       /\ StepOf(i) =>
            \/ csrs' = csrs
            \/ /\ pc[i] = "create"
               /\ ByName(CsrName) = {}
               /\ csrs' = csrs \cup
                    {[name |-> CsrName, uid |-> nextUid, request |-> i,
                      conds |-> <<>>, cert |-> Nil]}]_vars

\* GetKubernetesCertificate has returned on a decided request that has its
\* conditions and a certificate, and the request is still as it was fetched.
C20_Witness ==
  \E i \in Procs :
    /\ polls[i] > 1
    /\ kcmRet[i] # "none"
    /\ Len(getResp[i].conds) = MaxConds
    /\ getResp[i].cert # Nil
    /\ \E r \in ByName(CsrName) :
         /\ r.uid = getResp[i].uid
         /\ r.conds = getResp[i].conds
         /\ r.cert = getResp[i].cert

----------------------------------------------------------------------------
\* The elements of a sequence.
Range(s) == {s[k] : k \in 1..Len(s)}

\* C21: the req.Spec of every Create an invocation has made asks for digital
\* signature, key encipherment and client auth, each once, and for server
\* auth besides exactly when wantServerAuth is set; its signer name is
\* legacy-unknown with wantServerAuth and kube-apiserver-client without,
\* whatever the other flags are.
C21_UsagesAndSigner ==
  \A i \in Procs :
    creates[i] > 0 =>
      /\ Range(req[i].Usages) =
           {"digital signature", "key encipherment", "client auth"} \cup
           (IF wantServerAuth[i] THEN {"server auth"} ELSE {})
      /\ Len(req[i].Usages) = Cardinality(Range(req[i].Usages))
      /\ wantServerAuth[i] => req[i].SignerName = "kubernetes.io/legacy-unknown"
      /\ ~wantServerAuth[i] => req[i].SignerName = "kubernetes.io/kube-apiserver-client"
      /\ wantServerAuth[i] = (flags.type = "node")

\* A client's request has been created.
C21_Witness ==
  \E i \in Procs :
    /\ creates[i] > 0
    /\ createErr[i] = "none"
    /\ ~wantServerAuth[i]
    /\ req[i].SignerName # ""

\* Invocation i has built the template of a node.
NodeTemplate(i) ==
  /\ pc[i] \notin {"idle", "validate"}
  /\ err[i] # "flags"
  /\ flags.type = "node"

\* C22: in the template of a node every host of --addresses that
\* net.ParseIP accepts is among the IP addresses, as the parsed IP, and not
\* among the DNS names; every host it rejects is among the DNS names and
\* not among the IP addresses; the IP addresses are those of the hosts and
\* nothing else.
C22_HostsArePartitioned ==
  \A i \in Procs :
    NodeTemplate(i) =>
      /\ \A h \in Range(flags.addresses) :
           IF ParseIP(h) # ""
             THEN /\ ParseIP(h) \in Range(template[i].IPAddresses)
                  /\ h \notin Range(template[i].DNSNames)
             ELSE /\ h \in Range(template[i].DNSNames)
                  /\ h \notin Range(template[i].IPAddresses)
      /\ Range(template[i].IPAddresses) =
           {ParseIP(h) : h \in {g \in Range(flags.addresses) : ParseIP(g) # ""}}
      /\ Range(template[i].IPAddresses) \cap Range(template[i].DNSNames) = {}

\* A template built from an IP address, whose parsed form is not its text,
\* and a DNS name.
C22_Witness ==
  \E i \in Procs :
    /\ NodeTemplate(i)
    /\ flags.addresses = <<"::ffff:10.0.0.2", "localhost">>
    /\ template[i].IPAddresses = <<"10.0.0.2">>

\* C23: the DNS names of a node's template hold "node", and the hosts that
\* are no IP address.
C23_NodeNameInDNSNames ==
  \A i \in Procs :
    NodeTemplate(i) =>
      /\ "node" \in Range(template[i].DNSNames)
      /\ \A h \in Range(flags.addresses) :
           ParseIP(h) = "" => h \in Range(template[i].DNSNames)

\* C24: with a CA source, writeFiles without an I/O failure succeeds and
\* leaves ca.crt linking to the source, on a directory without ca.crt and
\* on one with it, and so does a second writeFiles on what the first left,
\* which it changes in nothing; an invocation that ended well has the link.
\* The old ca.crt is removed before the new one is made: when the Symlink
\* call fails, the directory is left without ca.crt.
C24_SymlinkIsRepeatable ==
  symlinkCASource # "" =>
    \A i \in Procs :
      pc[i] \in {"write", "done"} =>
        LET once == writeFiles(fs[i], pemCert[i], pemKey[i], symlinkCASource, {})
            twice == writeFiles(once.fs, pemCert[i], pemKey[i], symlinkCASource, {})
            cut == writeFiles(fs[i], pemCert[i], pemKey[i], symlinkCASource, {"symlink"})
        IN /\ once.ok
           /\ once.fs.ca = symlinkCASource
           /\ twice.ok
           /\ twice.fs = once.fs
           /\ ~cut.ok
           /\ cut.fs.ca = ""
           /\ pc[i] = "done" => fs[i].ca = symlinkCASource

\* The failing calls among `faults` that writeFiles on directory f gets to
\* make and that have something to fail on: the ca.crt calls are made with
\* a CA source only, and a Remove that finds no ca.crt is no failure.
Failing(f, faults) ==
  faults \cap
    ({"mkdir", "key", "crt"} \cup
     (IF symlinkCASource = "" THEN {}
      ELSE {"symlink"} \cup (IF f.ca # "" THEN {"remove"} ELSE {})))

\* C25: whichever of MkdirAll, the two WriteFile calls, the Remove of an
\* existing ca.crt and Symlink fail, writeFiles returns an error; and
\* the writeFiles step ends the invocation as failed unless it has written
\* all there is to write.
C25_IOFailureIsFatal ==
  [][\A i \in Procs :
       pc[i] = "write" =>
         /\ \A faults \in SUBSET IOCalls :
              Failing(fs[i], faults) # {} =>
                ~writeFiles(fs[i], pemCert[i], pemKey[i], symlinkCASource, faults).ok
         /\ pc'[i] # "write" =>
              \/ pc'[i] = "failed" /\ err'[i] = "files"
              \/ /\ pc'[i] = "done"
                 /\ fs'[i] = writeFiles(fs[i], pemCert[i], pemKey[i],
                                        symlinkCASource, {}).fs]_vars

\* The Remove of the old ca.crt failed, after both files were written, and
\* the invocation has failed.
C25_Witness ==
  \E i \in Procs :
    /\ err[i] = "files"
    /\ pc[i] = "failed"
    /\ fs[i].crt # Nil
    /\ symlinkCASource # ""
    /\ fs[i].ca = "/old-ca.crt"

\* C26: clientCSR makes, for every user name, a template whose common name
\* is that name and that has no IP address and no DNS name; the template
\* of a client invocation is the one of its --user, whatever --addresses
\* holds.
C26_ClientTemplate ==
  /\ \A u \in UserNames :
       /\ clientCSR(u).CommonName = u
       /\ clientCSR(u).IPAddresses = <<>>
       /\ clientCSR(u).DNSNames = <<>>
  /\ \A i \in Procs :
       pc[i] \notin {"idle", "validate"} /\ err[i] # "flags" /\ flags.type = "client" =>
         /\ template[i].CommonName = flags.user
         /\ template[i].IPAddresses = <<>>
         /\ template[i].DNSNames = <<>>

\* A client's template has been built while --addresses had hosts.
C26_Witness ==
  \E i \in Procs :
    /\ pc[i] = "getSecrets"
    /\ flags.type = "client"
    /\ template[i].CommonName = "maxroach"
    /\ flags.addresses = <<"10.0.0.1", "localhost">>

\* Certificate c is one issued for the public key of private key k.
IssuedFor(c, k) == c.kind = "cert" /\ k.kind = "key" /\ c.id = k.id

\* C27: requestCertificate hands main a pair only when the certificate the
\* control plane returned is one for the key generated in this invocation;
\* with any other certificate it fails and main has no pair.  So the pair
\* of every StoreSecrets call, every secret that holds an invocation's key,
\* and the files written after an issuance hold a certificate for their
\* key.
C27_PairsMatch ==
  /\ \A i \in Procs :
       /\ creates[i] > 0 /\ pemCert[i] # Nil =>
            /\ pemKey[i] = Key(i)
            /\ pemCert[i] = cert[i]
            /\ IssuedFor(pemCert[i], pemKey[i])
       /\ kcmRet[i] = "ok" /\ ~IssuedFor(cert[i], pemKey[i]) =>
            /\ pc[i] = "failed"
            /\ err[i] = "keypair"
            /\ pemCert[i] = Nil
            /\ puts[i] = 0
            /\ NothingWritten(i)
       /\ puts[i] > 0 => IssuedFor(pemCert[i], pemKey[i])
       /\ creates[i] > 0 /\ fs[i].crt # Nil => IssuedFor(fs[i].crt, fs[i].key)
  /\ \A s \in secrets :
       (\E i \in Procs : s.key = Key(i)) => IssuedFor(s.cert, s.key)

\* requestCertificate has turned down a certificate issued for another key.
C27_Witness ==
  \E i \in Procs :
    /\ err[i] = "keypair"
    /\ kcmRet[i] = "ok"
    /\ cert[i] # Nil
    /\ ~IssuedFor(cert[i], pemKey[i])

\* GetKubernetesCertificate has returned to invocation i: the certificate
\* of an approved request, or the denial of a denied one.
AwaitReturned(i) ==
  \/ /\ kcmRet[i] = "ok"
     /\ Approved(getResp[i])
     /\ cert[i] = getResp[i].cert
     /\ cert[i] # Nil
  \/ /\ kcmRet[i] = "error"
     /\ err[i] = "denied"
     /\ Denied(getResp[i])

\* C28: with Gets that succeed, a control plane that in the end records a
\* condition and issues the certificate of an approved request, and a
\* ticker that keeps ticking, an invocation in the Waiter loop gets out of
\* it: GetKubernetesCertificate returns the certificate of the approved
\* request or the denial error of the denied one.
C28_AwaitReturns ==
  \A i \in Procs : (pc[i] = "await") ~> AwaitReturned(i)

\* The wait has ended with the certificate after ticks that found the
\* request undecided or without its certificate.
C28_Witness ==
  \E i \in Procs :
    /\ kcmRet[i] = "ok"
    /\ AwaitReturned(i)
    /\ polls[i] = MaxPolls

\* C29: a round of the watching loop that finds the result channel closed
\* leaves the loop, and getKubernetesCertificate returns the "watch channel
\* closed" error.
C29_ClosedWatchReturns ==
  [][\A i \in Procs :
       pc[i] = "watching" /\ ~watchOpen[i] /\ polls'[i] # polls[i] =>
         /\ pc'[i] = "failed"
         /\ err'[i] = "watch channel closed"
         /\ kcmRet'[i] = "error"]_vars

\* The flags the claim calls invalid.
InvalidFlags(f) ==
  \/ f.namespace = ""
  \/ f.type \notin {"node", "client"}
  \/ f.type = "node" /\ f.addresses = <<"">>
  \/ f.type = "client" /\ f.user = ""

\* C30: with an empty --namespace, a --type that is neither node nor
\* client, a node without --addresses or a client without --user, the
\* invocation gets no further than the flag checks: it has failed there or
\* is still to make them, it has never been at the lookup of the secret,
\* has made no key and no API call, and has written no file; no request of
\* the name and no secret has come to exist.
C30_FlagsCheckedFirst ==
  InvalidFlags(flags) =>
    /\ ~ValidateFlags(flags, TRUE).ok
    /\ secrets = {}
    /\ \A i \in Procs :
         /\ pc[i] \in {"idle", "validate", "failed"}
         /\ pc[i] = "failed" => err[i] = "flags"
         /\ template[i] = NoTemplate
         /\ creates[i] = 0 /\ polls[i] = 0 /\ puts[i] = 0
         /\ pemKey[i] = Nil /\ req[i] = NoReq
         /\ NothingWritten(i)
         /\ \A r \in csrs : r.request # i

\* A client invocation without --user has ended at the flag checks while
\* other clients were at work in the cluster.
C30_Witness ==
  \E i \in Procs :
    /\ pc[i] = "failed"
    /\ err[i] = "flags"
    /\ flags.type = "client"
    /\ flags.user = ""
    /\ flags.namespace # ""
    /\ ByName(CsrName) # {}

----------------------------------------------------------------------------
\* The node has a label of `keys` with a value that is not empty.
HasLabel(keys) ==
  \E k \in DOMAIN keys :
    keys[k] \in DOMAIN nodeLabels /\ nodeLabels[keys[k]] # <<>>

\* The names of the files written, in the order of writing.
WrittenNames == [k \in DOMAIN written |-> written[k].name]

\* C31: when the node lacks a region label or a zone label with a value,
\* the locality-checker writes no file; WriteLocality has then returned
\* without an error when ErrorOnMissingLabels is off (unless the Get of the
\* node failed), and with the missing-label error when it is on.  Files are
\* written only with both labels found, and they are region, zone and
\* locality, in that order.
C31_MissingLabelsWriteNothing ==
  /\ ~(HasLabel(RegionKeys) /\ HasLabel(ZoneKeys)) =>
       /\ written = <<>>
       /\ localityInfo = NoInfo
       /\ lpc \in {"main", "getLocalityInfo", "done", "failed"}
       /\ lpc = "done" => ~checker.ErrorOnMissingLabels /\ lerr = "none"
       /\ lpc = "failed" /\ ~checker.ErrorOnMissingLabels =>
            lerr \in {"KUBERNETES_NODE must be set", "error building clientset",
                      "getting node labels failed"}
       /\ lpc = "failed" /\ checker.ErrorOnMissingLabels =>
            lerr \in {"KUBERNETES_NODE must be set", "error building clientset",
                      "getting node labels failed",
                      IF HasLabel(RegionKeys) THEN "no zone labels found"
                                              ELSE "no region labels found"}
  /\ written # <<>> =>
       /\ HasLabel(RegionKeys) /\ HasLabel(ZoneKeys)
       /\ \E n \in 1..3 : WrittenNames = SubSeq(<<"region", "zone", "locality">>, 1, n)
  /\ lpc = "done" /\ HasLabel(RegionKeys) /\ HasLabel(ZoneKeys) =>
       WrittenNames = <<"region", "zone", "locality">>

\* A node with a region label and a zone label that is there but empty:
\* the run has ended well and written nothing.
C31_Witness ==
  /\ lpc = "done"
  /\ written = <<>>
  /\ ~checker.ErrorOnMissingLabels
  /\ HasLabel(RegionKeys)
  /\ "topology.kubernetes.io/zone" \in DOMAIN nodeLabels
  /\ ~HasLabel(ZoneKeys)

----------------------------------------------------------------------------
\* Priority lists to look labels up with: those of the program, and the
\* same lists the other way round.
NeedleLists ==
  {RegionKeys, ZoneKeys, <<RegionKeys[2], RegionKeys[1]>>,
   <<ZoneKeys[2], ZoneKeys[1]>>, <<RegionKeys[1]>>, <<>>}

\* The places of `needles` whose key the haystack holds with a value.
Qualifying(haystack, needles) ==
  {k \in DOMAIN needles :
     needles[k] \in DOMAIN haystack /\ haystack[needles[k]] # <<>>}

\* The value of the topology label when it is not empty, else that of the
\* failure-domain label.
Preferred(topology, beta) ==
  IF topology \in DOMAIN nodeLabels /\ nodeLabels[topology] # <<>>
    THEN nodeLabels[topology]
    ELSE nodeLabels[beta]

\* C32: getFirstValue returns the value of the first key of the list that
\* the labels hold with a value that is not empty, and an error exactly when
\* there is no such key; the region and the zone of the locality are the
\* Prefix followed by the topology.kubernetes.io value when that is not
\* empty and by the failure-domain.beta.kubernetes.io value otherwise, and
\* these are the values written.
C32_LabelPriority ==
  /\ \A needles \in NeedleLists :
       LET r == getFirstValue(nodeLabels, needles)
           q == Qualifying(nodeLabels, needles) IN
       /\ r.err # "none" <=> q = {}
       /\ q # {} =>
            r.value = nodeLabels[needles[CHOOSE k \in q : \A j \in q : k <= j]]
  /\ ~localityInfo.nil =>
       /\ localityInfo.Region =
            checker.Prefix \o Preferred(RegionKeys[1], RegionKeys[2])
       /\ localityInfo.Zone =
            checker.Prefix \o Preferred(ZoneKeys[1], ZoneKeys[2])
  /\ \A k \in DOMAIN written :
       written[k].value =
         CASE written[k].name = "region" ->
                checker.Prefix \o Preferred(RegionKeys[1], RegionKeys[2])
           [] written[k].name = "zone" ->
                checker.Prefix \o Preferred(ZoneKeys[1], ZoneKeys[2])
           [] OTHER ->
                <<"--locality=region=">> \o checker.Prefix
                  \o Preferred(RegionKeys[1], RegionKeys[2])
                  \o <<",az=">> \o checker.Prefix
                  \o Preferred(ZoneKeys[1], ZoneKeys[2])

\* The topology region label is there but empty and the topology zone label
\* has a value, both failure-domain labels have one, the Prefix is not
\* empty: the three files are written.
C32_Witness ==
  /\ lpc = "done"
  /\ Len(written) = 3
  /\ checker.Prefix # <<>>
  /\ "topology.kubernetes.io/region" \in DOMAIN nodeLabels
  /\ nodeLabels["topology.kubernetes.io/region"] = <<>>
  /\ written[1].value = checker.Prefix \o LabelValue("failure-domain.beta.kubernetes.io/region")
  /\ "failure-domain.beta.kubernetes.io/zone" \in DOMAIN nodeLabels
  /\ nodeLabels["failure-domain.beta.kubernetes.io/zone"] # <<>>
  /\ written[2].value = checker.Prefix \o LabelValue("topology.kubernetes.io/zone")

====
